---- MODULE Spec2Model ----
(***************************************************************************)
(* State-machine model of the SMTP integrator charm (src/charm.py).        *)
(*                                                                         *)
(* One charm object is built by __init__ for a dispatch of the host        *)
(* runtime and then reacts to lifecycle notifications.  The handlers are   *)
(* modelled statement by statement: `pc` holds the statements of the       *)
(* running handler that are still to be executed, in program order, and    *)
(* is empty between two notifications.  Relation data, the secret store,   *)
(* the grants, the unit status and the leadership flag belong to the host  *)
(* runtime and survive the charm object.                                   *)
(***************************************************************************)
EXTENDS Integers, Sequences, FiniteSets, TLC

VARIABLES
    config,      \* configuration the charm object was built from
    charm,       \* "observing" | "blocked" | "crashed": the charm object
    cs,          \* self._charm_state (NoState when construction was refused)
    status,      \* self.unit.status
    leader,      \* self.model.unit.is_leader()
    relations,   \* ids of the relations that exist (both endpoints)
    reldata,     \* relation id -> application databag of that relation
    secrets,     \* secret store: secret id i holds secrets[i]
    grants,      \* set of <<secret id, relation id>> read grants
    pc,          \* statements of the running handler still to execute
    rx           \* history: the reaction in progress, or the one that just ended

vars == <<config, charm, cs, status, leader, relations, reldata, secrets, grants, pc, rx>>

----------------------------------------------------------------------------
(* Bounds of the model *)

MaxRelations == 2    \* relations that can be established, both endpoints
MaxSecrets == 2      \* secrets the store is allowed to hold

----------------------------------------------------------------------------
(* Values *)

None == "<None>"

\* Python truthiness of an Optional[str]
Truthy(v) == v # None /\ v # ""

\* Secret ids are opaque; id 0 stands for "no id" (None)
NoSecret == 0

\* relation ids; the odd ones are on the current endpoint (smtp), the even
\* ones on the legacy endpoint (smtp-legacy)
AllRelations == 1 .. MaxRelations
CurrentRelations == {r \in AllRelations : r % 2 = 1}
LegacyRelations == {r \in AllRelations : r % 2 = 0}

\* an empty application databag
EmptyData == [written |-> FALSE]

NoState == [valid |-> FALSE]

MinPort == 1
MaxPort == 65535
AuthTypes == {"none", "plain", "login"}
TransportSecurities == {"none", "starttls", "tls"}

\* the configuration surface: the options from_charm reads
Config(host, port, user, password, auth_type, transport_security, domain) ==
    [host |-> host, port |-> port, user |-> user, password |-> password,
     auth_type |-> auth_type, transport_security |-> transport_security,
     domain |-> domain]

\* configuration inputs explored by Spec: the valid ones differ in the
\* password, the invalid ones in the option that is out of range
Passwords == {None, "", "p"}
ValidConfigs ==
    {Config("smtp.example.com", 587, "u", pw, "plain", "starttls", None) :
        pw \in Passwords}
InvalidConfigs ==
    {Config("smtp.example.com", 99999, "u", "p", "plain", "starttls", None),
     Config("smtp.example.com", 587, "u", "p", "bogus", "starttls", None)}
Configs == ValidConfigs \cup InvalidConfigs

\* configuration inputs explored by ValidationSpec: every option takes
\* values on both sides of its constraint
PortInputs == {0, 1, 65535, 65536, 99999}
AuthTypeInputs == {"none", "plain", "login", "bogus"}
TransportSecurityInputs == {"none", "starttls", "tls", "ssl"}
UserInputs == {None, "u"}
DomainInputs == {None, "example.com"}
ConfigInputs ==
    {Config("smtp.example.com", p, u, "p", a, t, d) :
        p \in PortInputs, u \in UserInputs, a \in AuthTypeInputs,
        t \in TransportSecurityInputs, d \in DomainInputs}

\* CharmState.from_charm raises CharmConfigInvalidError unless this holds
ConfigValid(c) ==
    /\ c.port \in MinPort .. MaxPort
    /\ c.auth_type \in AuthTypes
    /\ c.transport_security \in TransportSecurities

\* the message carried by CharmConfigInvalidError
ConfigInvalidMsg(c) ==
    IF c.port \notin MinPort .. MaxPort THEN "invalid configuration: port"
    ELSE IF c.auth_type \notin AuthTypes THEN "invalid configuration: auth_type"
    ELSE "invalid configuration: transport_security"

\* CharmState.from_charm on a valid configuration
from_charm(c) ==
    [valid |-> TRUE,
     host |-> c.host, port |-> c.port, user |-> c.user,
     password |-> c.password, password_id |-> NoSecret,
     auth_type |-> c.auth_type, transport_security |-> c.transport_security,
     domain |-> c.domain]

UnknownStatus == [name |-> "unknown", message |-> ""]
MaintenanceStatus(msg) == [name |-> "maintenance", message |-> msg]
ActiveStatus == [name |-> "active", message |-> ""]
BlockedStatus(msg) == [name |-> "blocked", message |-> msg]

Stmt(op, r) == [op |-> op, rel |-> r]

RECURSIVE InOrder(_)
\* the relations of S as the list the framework hands out (by relation id)
InOrder(S) ==
    IF S = {} THEN <<>>
    ELSE LET m == CHOOSE x \in S : \A y \in S : x <= y
         IN <<m>> \o InOrder(S \ {m})

RECURSIVE Stmts(_, _)
Stmts(op, rs) ==
    IF rs = <<>> THEN <<>> ELSE <<Stmt(op, Head(rs))>> \o Stmts(op, Tail(rs))

Idle == pc = <<>>

\* History of one reaction: the notification, how the handler left
\* ("running", "done", "returned" for the non-leader return, "failed",
\* "unobserved"), the secret store size, the recorded reference and the
\* name of the unit status when it began, and the relations it wrote to and
\* granted so far.
NoReaction ==
    [kind |-> "none", rel |-> 0, outcome |-> "done",
     pre_n |-> 0, pre_id |-> 0, pre_status |-> "",
     written |-> {}, granted |-> {}]

Begin(kind, r, outcome) ==
    [kind |-> kind, rel |-> r, outcome |-> outcome,
     pre_n |-> Len(secrets),
     pre_id |-> IF charm = "observing" THEN cs.password_id ELSE 0,
     pre_status |-> status.name,
     written |-> {}, granted |-> {}]

\* the secrets created since the reaction began
Created == (rx.pre_n + 1) .. Len(secrets)

\* the handler returns when its last statement has run
After(rest) == IF rest = <<>> THEN "done" ELSE "running"

----------------------------------------------------------------------------
(* Relation payloads *)

\* mutant: the current-shape payload carries the plaintext password
_get_smtp_data_plaintext ==
    [written |-> TRUE,
     host |-> cs.host, port |-> cs.port, user |-> cs.user,
     password |-> cs.password,
     auth_type |-> cs.auth_type, transport_security |-> cs.transport_security,
     domain |-> cs.domain]

\* mutant: the domain of the current-shape payload is taken from the user
_get_smtp_data_domain_from_user ==
    [written |-> TRUE,
     host |-> cs.host, port |-> cs.port, user |-> cs.user,
     password_id |-> cs.password_id,
     auth_type |-> cs.auth_type, transport_security |-> cs.transport_security,
     domain |-> cs.user]

\* smtp.SmtpRelationData(...) as built by _get_smtp_data
_get_smtp_data ==
    [written |-> TRUE,
     host |-> cs.host, port |-> cs.port, user |-> cs.user,
     password_id |-> cs.password_id,
     auth_type |-> cs.auth_type, transport_security |-> cs.transport_security,
     domain |-> cs.domain]

\* mutant: the legacy-shape payload exposes the reference, not the password
_get_legacy_smtp_data_with_id ==
    [written |-> TRUE,
     host |-> cs.host, port |-> cs.port, user |-> cs.user,
     password_id |-> cs.password_id,
     auth_type |-> cs.auth_type, transport_security |-> cs.transport_security,
     domain |-> cs.domain]

\* smtp.SmtpRelationData(...) as built by _get_legacy_smtp_data
_get_legacy_smtp_data ==
    [written |-> TRUE,
     host |-> cs.host, port |-> cs.port, user |-> cs.user,
     password |-> cs.password,
     auth_type |-> cs.auth_type, transport_security |-> cs.transport_security,
     domain |-> cs.domain]

----------------------------------------------------------------------------
(* Construction *)

Init ==
    /\ config \in Configs
    /\ charm = IF ConfigValid(config) THEN "observing" ELSE "blocked"
    /\ cs = IF ConfigValid(config) THEN from_charm(config) ELSE NoState
    /\ status = IF ConfigValid(config) THEN UnknownStatus
                ELSE BlockedStatus(ConfigInvalidMsg(config))
    /\ leader \in BOOLEAN
    /\ relations = {}
    /\ reldata = [r \in AllRelations |-> EmptyData]
    /\ secrets = <<>>
    /\ grants = {}
    /\ pc = <<>>
    /\ rx = NoReaction

\* mutant: the return after the blocked status is missing, the handlers
\* are observed on an invalid configuration too
__init___observes_anyway(c) ==
    /\ Idle
    /\ config' = c
    /\ cs' = from_charm(c)
    /\ charm' = "observing"
    /\ status' = IF ConfigValid(c) THEN status
                  ELSE BlockedStatus(ConfigInvalidMsg(c))
    /\ rx' = NoReaction
    /\ UNCHANGED <<leader, relations, reldata, secrets, grants, pc>>

\* mutant: the exception is caught but no status is reported
__init___no_status(c) ==
    /\ Idle
    /\ config' = c
    /\ IF ConfigValid(c)
       THEN /\ cs' = from_charm(c)
            /\ charm' = "observing"
       ELSE /\ cs' = NoState
            /\ charm' = "blocked"
    /\ status' = status
    /\ rx' = NoReaction
    /\ UNCHANGED <<leader, relations, reldata, secrets, grants, pc>>

\* a new dispatch builds the charm object from configuration c
__init__(c) ==
    /\ Idle
    /\ config' = c
    /\ IF ConfigValid(c)
       THEN /\ cs' = from_charm(c)
            /\ charm' = "observing"
            /\ status' = status
       ELSE /\ cs' = NoState
            /\ charm' = "blocked"
            /\ status' = BlockedStatus(ConfigInvalidMsg(c))
    /\ rx' = NoReaction
    /\ UNCHANGED <<leader, relations, reldata, secrets, grants, pc>>

----------------------------------------------------------------------------
(* Host runtime *)

\* a relation is established on one of the two endpoints
RelationAdded(r) ==
    /\ Idle
    /\ r \in AllRelations \ relations
    /\ relations' = relations \cup {r}
    /\ rx' = NoReaction
    /\ UNCHANGED <<config, charm, cs, status, leader, reldata, secrets, grants, pc>>

\* leadership moves between two notifications
LeaderChanged ==
    /\ Idle
    /\ leader' = ~leader
    /\ rx' = NoReaction
    /\ UNCHANGED <<config, charm, cs, status, relations, reldata, secrets, grants, pc>>

\* a notification delivered to a charm object that observes nothing
Unobserved(kind, r) ==
    /\ Idle
    /\ charm = "blocked"
    /\ rx' = Begin(kind, r, "unobserved")
    /\ UNCHANGED <<config, charm, cs, status, leader, relations, reldata, secrets, grants, pc>>

\* mutant: the exception is caught and the handler goes on
Raise_swallowed ==
    /\ ~Idle
    /\ \/ Head(pc).op \in {"grant", "write", "write_legacy"}
       \/ Head(pc).op = "store" /\ Truthy(cs.password)
    /\ pc' = Tail(pc)
    /\ rx' = [rx EXCEPT !.outcome = "failed"]
    /\ UNCHANGED <<config, charm, cs, status, leader, relations, reldata, secrets, grants>>

\* a primitive of the host runtime raises: the exception leaves the handler
Raise ==
    /\ ~Idle
    /\ \/ Head(pc).op \in {"grant", "write", "write_legacy"}
       \/ Head(pc).op = "store" /\ Truthy(cs.password)
    /\ pc' = <<>>
    /\ charm' = "crashed"
    /\ rx' = [rx EXCEPT !.outcome = "failed"]
    /\ UNCHANGED <<config, cs, status, leader, relations, reldata, secrets, grants>>

----------------------------------------------------------------------------
(* Handlers *)

\* mutant: the handler rewrites every relation, not the event's one
_on_relation_created_updates_all(r) ==
    /\ Idle
    /\ charm = "observing"
    /\ r \in relations \cap CurrentRelations
    /\ IF ~leader
       THEN /\ pc' = <<>>
            /\ rx' = Begin("relation_created", r, "returned")
       ELSE /\ pc' = (IF cs.password_id # NoSecret
                      THEN <<Stmt("grant", r)>> ELSE <<>>)
                     \o <<Stmt("update", 0)>>
            /\ rx' = Begin("relation_created", r, "running")
    /\ UNCHANGED <<config, charm, cs, status, leader, relations, reldata, secrets, grants>>

\* mutant: the databag is written before the secret is granted
_on_relation_created_write_first(r) ==
    /\ Idle
    /\ charm = "observing"
    /\ r \in relations \cap CurrentRelations
    /\ IF ~leader
       THEN /\ pc' = <<>>
            /\ rx' = Begin("relation_created", r, "returned")
       ELSE /\ pc' = <<Stmt("write", r)>>
                     \o (IF cs.password_id # NoSecret
                         THEN <<Stmt("grant", r)>> ELSE <<>>)
            /\ rx' = Begin("relation_created", r, "running")
    /\ UNCHANGED <<config, charm, cs, status, leader, relations, reldata, secrets, grants>>

\* _on_relation_created: the statements it runs, in order
_on_relation_created(r) ==
    /\ Idle
    /\ charm = "observing"
    /\ r \in relations \cap CurrentRelations
    /\ IF ~leader
       THEN /\ pc' = <<>>
            /\ rx' = Begin("relation_created", r, "returned")
       ELSE /\ pc' = (IF cs.password_id # NoSecret
                      THEN <<Stmt("grant", r)>> ELSE <<>>)
                     \o <<Stmt("write", r)>>
            /\ rx' = Begin("relation_created", r, "running")
    /\ UNCHANGED <<config, charm, cs, status, leader, relations, reldata, secrets, grants>>

\* secret.grant(event.relation)
secret_grant ==
    /\ ~Idle
    /\ Head(pc).op = "grant"
    /\ grants' = grants \cup {<<cs.password_id, Head(pc).rel>>}
    /\ pc' = Tail(pc)
    /\ rx' = [rx EXCEPT !.granted = @ \cup {Head(pc).rel},
                        !.outcome = After(Tail(pc))]
    /\ UNCHANGED <<config, charm, cs, status, leader, relations, reldata, secrets>>

\* mutant: the legacy handler grants the secret as the current one does
_on_legacy_relation_created_granting(r) ==
    /\ Idle
    /\ charm = "observing"
    /\ r \in relations \cap LegacyRelations
    /\ IF ~leader
       THEN /\ pc' = <<>>
            /\ rx' = Begin("legacy_relation_created", r, "returned")
       ELSE /\ pc' = (IF cs.password_id # NoSecret
                      THEN <<Stmt("grant", r)>> ELSE <<>>)
                     \o <<Stmt("write_legacy", r)>>
            /\ rx' = Begin("legacy_relation_created", r, "running")
    /\ UNCHANGED <<config, charm, cs, status, leader, relations, reldata, secrets, grants>>

_on_legacy_relation_created(r) ==
    /\ Idle
    /\ charm = "observing"
    /\ r \in relations \cap LegacyRelations
    /\ IF ~leader
       THEN /\ pc' = <<>>
            /\ rx' = Begin("legacy_relation_created", r, "returned")
       ELSE /\ pc' = <<Stmt("write_legacy", r)>>
            /\ rx' = Begin("legacy_relation_created", r, "running")
    /\ UNCHANGED <<config, charm, cs, status, leader, relations, reldata, secrets, grants>>

\* mutant: the relations are updated before the password is stored
ConfigChangedBody_update_first ==
    <<[op |-> "update", rel |-> 0], [op |-> "store", rel |-> 0],
      [op |-> "active", rel |-> 0]>>

\* the body of _on_config_changed after the maintenance status is set
ConfigChangedBody ==
    <<[op |-> "store", rel |-> 0], [op |-> "update", rel |-> 0],
      [op |-> "active", rel |-> 0]>>

\* mutant: a unit that reports a blocked status does not react
_on_config_changed_unless_blocked ==
    /\ Idle
    /\ charm = "observing"
    /\ Truthy(cs.password) => Len(secrets) < MaxSecrets
    /\ IF status.name = "blocked"
       THEN /\ status' = status
            /\ pc' = <<>>
            /\ rx' = Begin("config_changed", 0, "done")
       ELSE /\ status' = MaintenanceStatus("Configuring charm")
            /\ pc' = ConfigChangedBody
            /\ rx' = Begin("config_changed", 0, "running")
    /\ UNCHANGED <<config, charm, cs, leader, relations, reldata, secrets, grants>>

\* mutant: the maintenance status is not set
_on_config_changed_no_maintenance ==
    /\ Idle
    /\ charm = "observing"
    /\ Truthy(cs.password) => Len(secrets) < MaxSecrets
    /\ status' = status
    /\ pc' = ConfigChangedBody
    /\ rx' = Begin("config_changed", 0, "running")
    /\ UNCHANGED <<config, charm, cs, leader, relations, reldata, secrets, grants>>

_on_config_changed ==
    /\ Idle
    /\ charm = "observing"
    /\ Truthy(cs.password) => Len(secrets) < MaxSecrets
    /\ status' = MaintenanceStatus("Configuring charm")
    /\ pc' = ConfigChangedBody
    /\ rx' = Begin("config_changed", 0, "running")
    /\ UNCHANGED <<config, charm, cs, leader, relations, reldata, secrets, grants>>

\* mutant: the password is cleared once it is stored as a secret
_store_password_as_secret_clearing ==
    /\ ~Idle
    /\ Head(pc).op = "store"
    /\ IF Truthy(cs.password)
       THEN /\ secrets' = Append(secrets, cs.password)
            /\ cs' = [cs EXCEPT !.password_id = Len(secrets) + 1,
                                 !.password = None]
       ELSE UNCHANGED <<secrets, cs>>
    /\ pc' = Tail(pc)
    /\ UNCHANGED <<config, charm, status, leader, relations, reldata, grants, rx>>

\* mutant: only the leader stores the password
_store_password_as_secret_leader_only ==
    /\ ~Idle
    /\ Head(pc).op = "store"
    /\ IF Truthy(cs.password) /\ leader
       THEN /\ secrets' = Append(secrets, cs.password)
            /\ cs' = [cs EXCEPT !.password_id = Len(secrets) + 1]
       ELSE UNCHANGED <<secrets, cs>>
    /\ pc' = Tail(pc)
    /\ UNCHANGED <<config, charm, status, leader, relations, reldata, grants, rx>>

_store_password_as_secret ==
    /\ ~Idle
    /\ Head(pc).op = "store"
    /\ IF Truthy(cs.password)
       THEN /\ secrets' = Append(secrets, cs.password)
            /\ cs' = [cs EXCEPT !.password_id = Len(secrets) + 1]
       ELSE UNCHANGED <<secrets, cs>>
    /\ pc' = Tail(pc)
    /\ UNCHANGED <<config, charm, status, leader, relations, reldata, grants, rx>>

\* mutant: the relations of the legacy endpoint are skipped
_update_relations_skip_legacy ==
    /\ ~Idle
    /\ Head(pc).op = "update"
    /\ IF ~leader
       THEN pc' = Tail(pc)
       ELSE pc' = Stmts("write", InOrder(relations \cap CurrentRelations))
                  \o Tail(pc)
    /\ UNCHANGED <<config, charm, cs, status, leader, relations, reldata, secrets, grants, rx>>

\* mutant: the leadership guard is missing
_update_relations_unguarded ==
    /\ ~Idle
    /\ Head(pc).op = "update"
    /\ pc' = Stmts("write", InOrder(relations \cap CurrentRelations))
              \o Stmts("write_legacy", InOrder(relations \cap LegacyRelations))
              \o Tail(pc)
    /\ UNCHANGED <<config, charm, cs, status, leader, relations, reldata, secrets, grants, rx>>

_update_relations ==
    /\ ~Idle
    /\ Head(pc).op = "update"
    /\ IF ~leader
       THEN pc' = Tail(pc)
       ELSE pc' = Stmts("write", InOrder(relations \cap CurrentRelations))
                  \o Stmts("write_legacy", InOrder(relations \cap LegacyRelations))
                  \o Tail(pc)
    /\ UNCHANGED <<config, charm, cs, status, leader, relations, reldata, secrets, grants, rx>>

_update_saml_relation ==
    /\ ~Idle
    /\ Head(pc).op = "write"
    /\ reldata' = [reldata EXCEPT ![Head(pc).rel] = _get_smtp_data]
    /\ pc' = Tail(pc)
    /\ rx' = [rx EXCEPT !.written = @ \cup {Head(pc).rel},
                        !.outcome = After(Tail(pc))]
    /\ UNCHANGED <<config, charm, cs, status, leader, relations, secrets, grants>>

_update_saml_legacy_relation ==
    /\ ~Idle
    /\ Head(pc).op = "write_legacy"
    /\ reldata' = [reldata EXCEPT ![Head(pc).rel] = _get_legacy_smtp_data]
    /\ pc' = Tail(pc)
    /\ rx' = [rx EXCEPT !.written = @ \cup {Head(pc).rel},
                        !.outcome = After(Tail(pc))]
    /\ UNCHANGED <<config, charm, cs, status, leader, relations, secrets, grants>>

\* self.unit.status = ops.ActiveStatus()
set_active ==
    /\ ~Idle
    /\ Head(pc).op = "active"
    /\ status' = ActiveStatus
    /\ pc' = Tail(pc)
    /\ rx' = [rx EXCEPT !.outcome = After(Tail(pc))]
    /\ UNCHANGED <<config, charm, cs, leader, relations, reldata, secrets, grants>>

----------------------------------------------------------------------------

Next ==
    \/ \E c \in Configs : __init__(c)
    \/ \E r \in AllRelations : RelationAdded(r)
    \/ LeaderChanged
    \/ \E r \in CurrentRelations : Unobserved("relation_created", r)
    \/ \E r \in LegacyRelations : Unobserved("legacy_relation_created", r)
    \/ Unobserved("config_changed", 0)
    \/ Raise
    \/ \E r \in CurrentRelations : _on_relation_created(r)
    \/ secret_grant
    \/ \E r \in LegacyRelations : _on_legacy_relation_created(r)
    \/ _on_config_changed
    \/ _store_password_as_secret
    \/ _update_relations
    \/ _update_saml_relation
    \/ _update_saml_legacy_relation
    \/ set_active

Spec == Init /\ [][Next]_vars

\* The construction alone, over the configuration inputs of ConfigInputs:
\* every dispatch builds the charm object from one of them.
ValidationInit ==
    /\ config \in ConfigInputs
    /\ charm = IF ConfigValid(config) THEN "observing" ELSE "blocked"
    /\ cs = IF ConfigValid(config) THEN from_charm(config) ELSE NoState
    /\ status = IF ConfigValid(config) THEN UnknownStatus
                ELSE BlockedStatus(ConfigInvalidMsg(config))
    /\ leader \in BOOLEAN
    /\ relations = {}
    /\ reldata = [r \in AllRelations |-> EmptyData]
    /\ secrets = <<>>
    /\ grants = {}
    /\ pc = <<>>
    /\ rx = NoReaction

ValidationNext == \E c \in ConfigInputs : __init__(c)

ValidationSpec == ValidationInit /\ [][ValidationNext]_vars

----------------------------------------------------------------------------
(* Vocabulary of the properties *)

\* the handler of the notification ran (it is running, or it just ended)
Handled(kind) == rx.kind = kind /\ rx.outcome # "unobserved"
ConfigChanged == Handled("config_changed")
RelationCreated == Handled("relation_created")
LegacyRelationCreated == Handled("legacy_relation_created")

\* the configuration-changed reaction found a password that was not yet
\* stored as a secret
PasswordToStore == Truthy(cs.password) /\ rx.pre_id = NoSecret

\* the fields of a databag
Fields(d) == DOMAIN d \ {"written"}

CommonFields == {"host", "port", "user", "auth_type", "transport_security", "domain"}
CurrentFields == CommonFields \cup {"password_id"}
LegacyFields == CommonFields \cup {"password"}

----------------------------------------------------------------------------
(* Properties *)

\* C1: whatever the notification, no step taken while the unit is not the
\* leader changes the data of any relation or the set of secret grants.
C1_NonLeaderWritesNothing ==
    [][~leader => (reldata' = reldata /\ grants' = grants)]_vars

\* a non-leader unit that holds a password has completed a
\* configuration-changed reaction while relations of both endpoints exist
C1_Witness ==
    /\ ~leader
    /\ ConfigChanged /\ rx.outcome = "done"
    /\ cs.password_id # NoSecret
    /\ relations \cap CurrentRelations # {}
    /\ relations \cap LegacyRelations # {}

\* C2: in a configuration-changed reaction that finds a password not yet
\* stored as a secret, exactly one secret has been created when the reaction
\* is done, every current relation written by the reaction carries the
\* reference of that secret and no password field, and every legacy relation
\* written by the reaction carries the plaintext password.
C2_OneSecretAndPayloads ==
    (ConfigChanged /\ PasswordToStore) =>
        /\ rx.outcome = "done" => Cardinality(Created) = 1
        /\ \A r \in rx.written \cap CurrentRelations :
              /\ Cardinality(Created) = 1
              /\ "password" \notin Fields(reldata[r])
              /\ "password_id" \in Fields(reldata[r])
              /\ reldata[r].password_id \in Created
        /\ \A r \in rx.written \cap LegacyRelations :
              /\ reldata[r].password = config.password
              /\ Truthy(reldata[r].password)

\* the leader stored the password and rewrote a relation of each endpoint
C2_Witness ==
    /\ ConfigChanged /\ PasswordToStore /\ rx.outcome = "done"
    /\ rx.written \cap CurrentRelations # {}
    /\ rx.written \cap LegacyRelations # {}

\* C3: in a configuration-changed reaction with a password to store, no
\* relation is written while the store statement is still to run, and every
\* current relation the reaction has written carries the reference the
\* reaction created, which is the one recorded in the state.
C3_SecretBeforeRelations ==
    (ConfigChanged /\ Truthy(cs.password)) =>
        /\ (\E i \in 1 .. Len(pc) : pc[i].op = "store") => rx.written = {}
        /\ rx.written # {} =>
              /\ Created # {}
              /\ cs.password_id \in Created
              /\ cs.password_id # rx.pre_id
        /\ \A r \in rx.written \cap CurrentRelations :
              reldata[r].password_id = cs.password_id

\* a reaction that began with an older reference recorded has written a
\* current relation
C3_Witness ==
    /\ ConfigChanged /\ Truthy(cs.password)
    /\ rx.pre_id # NoSecret
    /\ rx.written \cap CurrentRelations # {}


\* C4 (as claimed): a configuration-changed reaction that began with a
\* secret reference recorded, or with no password set, has created no secret
\* and left the recorded reference unchanged when it is done.
C4_NoSecretWhenAlreadyStored ==
    (ConfigChanged /\ rx.outcome = "done"
        /\ (rx.pre_id # NoSecret \/ ~Truthy(cs.password))) =>
        /\ Created = {}
        /\ cs.password_id = rx.pre_id

\* C5: whenever the charm is built from an invalid configuration the status
\* is blocked with the violation message and no handler is running, and no
\* step taken while the configuration stays invalid changes relation data,
\* the secret store or the grants.
C5_InvalidConfigBlocks ==
    [][/\ ~ConfigValid(config') =>
            /\ status' = BlockedStatus(ConfigInvalidMsg(config'))
            /\ pc' = <<>>
       /\ (~ConfigValid(config) /\ ~ConfigValid(config')) =>
            /\ reldata' = reldata
            /\ secrets' = secrets
            /\ grants' = grants]_vars

\* a configuration-changed notification was delivered to a leader built
\* from an invalid port while relations exist
C5_Witness ==
    /\ ~ConfigValid(config) /\ config.port = 99999
    /\ rx.kind = "config_changed" /\ rx.outcome = "unobserved"
    /\ leader
    /\ relations # {}

\* C6: in a relation-created reaction of the leader for a current relation,
\* if the state holds a secret reference the databag is written only after
\* the relation, and no other, was granted that secret; if it holds none, no
\* grant is made; either way the databag holds the current-shape payload
\* when the reaction is done.
C6_GrantThenWrite ==
    (RelationCreated /\ rx.outcome \in {"running", "done"}) =>
        /\ cs.password_id # NoSecret =>
              (rx.rel \in rx.written =>
                  /\ rx.granted = {rx.rel}
                  /\ <<cs.password_id, rx.rel>> \in grants)
        /\ cs.password_id = NoSecret => rx.granted = {}
        /\ rx.outcome = "done" =>
              /\ rx.written = {rx.rel}
              /\ reldata[rx.rel] = _get_smtp_data

\* the leader granted a secret and wrote the databag of a new relation
C6_Witness ==
    /\ RelationCreated /\ rx.outcome = "done"
    /\ cs.password_id # NoSecret
    /\ rx.granted = {rx.rel}
    /\ rx.written = {rx.rel}

\* C7 (as claimed): between two notifications, every current relation whose
\* databag carries a password_id has been granted the secret with that id.
C7_ReferenceImpliesGrant ==
    Idle =>
        \A r \in CurrentRelations :
            (reldata[r].written /\ reldata[r].password_id # NoSecret) =>
                <<reldata[r].password_id, r>> \in grants


\* C8: when a configuration-changed reaction of the leader is done, the
\* status is active, the reaction has written every existing relation, every
\* current relation holds the current-shape payload of the state and every
\* legacy relation holds the legacy-shape payload of the state.
C8_AllRelationsSynchronized ==
    (ConfigChanged /\ rx.outcome = "done" /\ leader) =>
        /\ status = ActiveStatus
        /\ rx.written = relations
        /\ \A r \in relations \cap CurrentRelations : reldata[r] = _get_smtp_data
        /\ \A r \in relations \cap LegacyRelations : reldata[r] = _get_legacy_smtp_data

\* the leader completed the reaction while a relation of each endpoint
\* exists and a password is set
C8_Witness ==
    /\ ConfigChanged /\ rx.outcome = "done" /\ leader
    /\ Truthy(cs.password)
    /\ relations \cap CurrentRelations # {}
    /\ relations \cap LegacyRelations # {}

\* C9 (as claimed): once a configuration-changed reaction has stored the
\* password as a secret, the state holds no plaintext password.
C9_PasswordCleared ==
    (ConfigChanged /\ Created # {}) => ~Truthy(cs.password)

\* C9 (amended): once a configuration-changed reaction has stored the
\* password as a secret, the state holds the reference of the new secret and
\* still holds the configured plaintext password, which is the content of
\* that secret.
C9_PasswordKept ==
    (ConfigChanged /\ Created # {}) =>
        /\ cs.password_id = Len(secrets)
        /\ cs.password_id \in Created
        /\ Truthy(cs.password)
        /\ cs.password = config.password
        /\ secrets[cs.password_id] = cs.password

\* a reaction that stored the password is done
C9_Witness ==
    /\ ConfigChanged /\ rx.outcome = "done"
    /\ Created # {}
    /\ cs.password_id # NoSecret

\* C10: a written databag of a current relation has exactly the fields host,
\* port, user, password_id, auth_type, transport_security and domain, with
\* password_id a secret id or none; a written databag of a legacy relation
\* has exactly the fields host, port, user, password, auth_type,
\* transport_security and domain, with password a configured password.
C10_PayloadShapes ==
    /\ \A r \in CurrentRelations :
          reldata[r].written =>
              /\ Fields(reldata[r]) = CurrentFields
              /\ reldata[r].password_id \in {NoSecret} \cup (1 .. Len(secrets))
    /\ \A r \in LegacyRelations :
          reldata[r].written =>
              /\ Fields(reldata[r]) = LegacyFields
              /\ reldata[r].password \in Passwords

\* a current and a legacy relation were written while the state holds both
\* a password and a secret reference
C10_Witness ==
    /\ charm = "observing"
    /\ Truthy(cs.password) /\ cs.password_id # NoSecret
    /\ \E r \in CurrentRelations :
          reldata[r].written /\ reldata[r].password_id # NoSecret
    /\ \E r \in LegacyRelations :
          reldata[r].written /\ Truthy(reldata[r].password)


\* C11: the step in which a primitive fails ends the handler (nothing is
\* left to run, the charm object is gone) and changes neither the status
\* nor relation data, secrets or grants; a failed configuration-changed
\* reaction leaves the status maintenance, and one that failed in the secret
\* creation has written no relation; after the failure nothing writes
\* relation data, secrets or grants and nothing sets the status active.
C11_FailurePropagates ==
    [][/\ (rx.outcome # "failed" /\ rx'.outcome = "failed") =>
            /\ pc' = <<>>
            /\ charm' = "crashed"
            /\ status' = status
            /\ reldata' = reldata /\ secrets' = secrets /\ grants' = grants
            /\ rx.kind = "config_changed" =>
                  status' = MaintenanceStatus("Configuring charm")
            /\ Head(pc).op = "store" => rx'.written = {}
       /\ rx.outcome = "failed" =>
            /\ pc = <<>>
            /\ reldata' = reldata /\ secrets' = secrets /\ grants' = grants
            /\ status' = status \/ status'.name = "blocked"]_vars

\* the secret creation of the leader failed while relations exist
C11_Witness ==
    /\ rx.kind = "config_changed" /\ rx.outcome = "failed"
    /\ Truthy(cs.password) /\ Created = {}
    /\ leader
    /\ relations = AllRelations
    /\ status = MaintenanceStatus("Configuring charm")


\* the constraints as the claim states them
PortOutOfRange(c) == c.port < 1 \/ c.port > 65535
OutsideEnumerations(c) ==
    \/ c.auth_type \notin {"none", "plain", "login"}
    \/ c.transport_security \notin {"none", "starttls", "tls"}

\* C12: a charm built from a configuration whose port is outside 1..65535 or
\* whose auth_type or transport_security is outside its enumeration has no
\* state snapshot and the status is blocked with a message; a charm built
\* from any other configuration has a state snapshot and its construction
\* left the status as it was.
C12_ValidationDecides ==
    [][IF PortOutOfRange(config') \/ OutsideEnumerations(config')
       THEN /\ cs' = NoState
            /\ charm' = "blocked"
            /\ status'.name = "blocked" /\ status'.message # ""
       ELSE /\ cs'.valid
            /\ charm' = "observing"
            /\ status' = status]_vars

\* a charm was built from a configuration at the upper end of the port
\* range after one that violated a constraint: it has a state snapshot and
\* the blocked status of the earlier construction is still reported
C12_Witness ==
    /\ config.port = 65535
    /\ config.auth_type = "login"
    /\ config.transport_security = "tls"
    /\ charm = "observing"
    /\ cs.valid
    /\ status.name = "blocked"


C14_BlockedUntilCorrected ==
    /\ ~ConfigValid(config) =>
          /\ status = BlockedStatus(ConfigInvalidMsg(config))
          /\ charm = "blocked"
          /\ Idle
          /\ rx.kind = "none" \/ rx.outcome = "unobserved"
    /\ (ConfigChanged /\ rx.outcome = "done") =>
          /\ ConfigValid(config)
          /\ status = ActiveStatus
          /\ leader =>
                /\ rx.written = relations
                /\ \A r \in relations \cap CurrentRelations :
                      reldata[r] = _get_smtp_data
                /\ \A r \in relations \cap LegacyRelations :
                      reldata[r] = _get_legacy_smtp_data

\* the leader completed the first configuration-changed reaction after a
\* blocked status, with a relation on each endpoint
C14_Witness ==
    /\ ConfigChanged /\ rx.outcome = "done"
    /\ rx.pre_status = "blocked"
    /\ leader
    /\ relations = AllRelations
    /\ status = ActiveStatus


\* C15: when a legacy relation-created reaction of the leader is done, the
\* databag of the event's relation, and no other, was written and holds the
\* legacy-shape payload, the reaction granted nothing and created no secret,
\* and no legacy relation is ever granted a secret.
C15_LegacyWriteOnly ==
    /\ (LegacyRelationCreated /\ rx.outcome = "done") =>
          /\ rx.written = {rx.rel}
          /\ reldata[rx.rel] = _get_legacy_smtp_data
          /\ rx.granted = {}
          /\ Created = {}
    /\ \A g \in grants : g[2] \notin LegacyRelations

\* the leader wrote a new legacy relation while the state holds a reference
C15_Witness ==
    /\ LegacyRelationCreated /\ rx.outcome = "done"
    /\ cs.password_id # NoSecret
    /\ rx.written = {rx.rel}

\* C16: no step of a relation-created reaction, on either endpoint, changes
\* the databag of a relation other than the event's, the secret store, the
\* reference recorded in the state or the unit status, and the only grant
\* it can add is one to the event's relation.
C16_RelationCreatedFrame ==
    [][(rx'.kind \in {"relation_created", "legacy_relation_created"}
            /\ rx'.outcome # "unobserved") =>
        /\ \A r \in AllRelations \ {rx'.rel} : reldata'[r] = reldata[r]
        /\ secrets' = secrets
        /\ cs'.password_id = cs.password_id
        /\ status' = status
        /\ \A g \in grants' \ grants : g[2] = rx'.rel]_vars

\* the leader granted and wrote a new current relation while the relation
\* of the other endpoint holds data
C16_Witness ==
    /\ RelationCreated /\ rx.outcome = "done"
    /\ rx.granted = {rx.rel}
    /\ rx.written = {rx.rel}
    /\ \E r \in AllRelations \ {rx.rel} : reldata[r].written

\* C17: while a configuration-changed reaction is running, on the leader or
\* not, the status is maintenance, so it is maintenance when the secret is
\* created and when each relation is written; when the reaction is done the
\* status is active.
C17_MaintenanceThenActive ==
    ConfigChanged =>
        /\ rx.outcome = "running" =>
              status = MaintenanceStatus("Configuring charm")
        /\ (Created # {} \/ rx.written # {}) /\ rx.outcome # "done" =>
              status = MaintenanceStatus("Configuring charm")
        /\ rx.outcome = "done" => status = ActiveStatus

\* a reaction that began with the status active has created a secret and
\* written a relation and is still running
C17_Witness ==
    /\ ConfigChanged /\ rx.outcome = "running"
    /\ rx.pre_status = "active"
    /\ Created # {}
    /\ rx.written # {}

\* C18: when a configuration-changed reaction of a unit that is not the
\* leader and holds a password is done, it has created one secret, the
\* state records the reference of that secret, and the reaction wrote no
\* relation and granted nothing.
C18_NonLeaderStoresSecret ==
    (ConfigChanged /\ rx.outcome = "done" /\ ~leader /\ Truthy(cs.password)) =>
        /\ Cardinality(Created) = 1
        /\ cs.password_id \in Created
        /\ secrets[cs.password_id] = cs.password
        /\ rx.written = {}
        /\ rx.granted = {}

\* a unit that is not the leader completed the reaction with a password
\* while relations of both endpoints exist
C18_Witness ==
    /\ ConfigChanged /\ rx.outcome = "done"
    /\ ~leader
    /\ Truthy(cs.password)
    /\ relations = AllRelations
    /\ Created # {}

====
